---- MODULE Spec2Model ----
(***************************************************************************)
(* Model of lib/spack/spack/spec_list.py: the SpecList class (named lists  *)
(* of specs with reference markers and matrices), its four cached views    *)
(* and its mutators.  The interpreter is Python 2 (basestring, the print   *)
(* statements of test/spec_list.py).                                       *)
(*                                                                         *)
(* Strings are sequences of chunks.  A chunk is either one special         *)
(* character ($ ^ / % ~ - + @ = space quote) or a maximal run of other     *)
(* characters, so that startswith(c) for a special character c is a test   *)
(* of the first chunk and "c in s" is a test of membership.                *)
(*                                                                         *)
(* YAML values are tagged: [t |-> "str", s], [t |-> "list", items] and     *)
(* [t |-> "dict", matrix, exclude, hasExclude].                            *)
(***************************************************************************)
EXTENDS Integers, Sequences, FiniteSets, TLC

VARIABLES _list, _reference, _expanded_list, _constraints, _specs,
          _concrete_specs, heap, last, nmut

vars == <<_list, _reference, _expanded_list, _constraints, _specs,
          _concrete_specs, heap, last, nmut>>

(***************************************************************************)
(* Bounds                                                                  *)
(***************************************************************************)
\* calls of add, remove and update_reference on the list under test
MaxMut == 1

\* length to which add may grow a list of the reference table
MaxRefLen == 3

\* largest key of __getitem__
MaxKey == 0

\* the concretizer fails at one of the first MaxFail constraint lists, or nowhere
MaxFail == 1

(***************************************************************************)
(* Python values                                                           *)
(***************************************************************************)
None == [some |-> FALSE, v |-> <<>>]

Some(x) == [some |-> TRUE, v |-> x]

NoErr == [kind |-> "", about |-> <<>>]

Err(k, a) == [kind |-> k, about |-> a]

Str(chunks) == [t |-> "str", s |-> chunks]

List(xs) == [t |-> "list", items |-> xs]

Matrix(axes) == [t |-> "dict", matrix |-> List(axes), exclude |-> List(<<>>), hasExclude |-> FALSE]

MatrixExcl(axes, ex) == [t |-> "dict", matrix |-> List(axes), exclude |-> List(ex), hasExclude |-> TRUE]

startswith(s, c) == Len(s) > 0 /\ s[1] = c

contains(s, c) == \E i \in 1..Len(s) : s[i] = c

(***************************************************************************)
(* The strings of test/spec_list.py                                        *)
(***************************************************************************)
mpileaks == <<"mpileaks">>
zlib == <<"zlib">>
libelf == <<"libelf">>
libdwarf == <<"libdwarf">>
ref_mpis == <<"$", "mpis">>
ref_gccs == <<"$", "gccs">>
gcc493 == <<"%", "gcc", "@", "4.9.3">>
gcc730 == <<"%", "gcc", "@", "7.3.0">>
intel18 == <<"%", "intel", "@", "18">>
mvapich22 == <<"mvapich2", "@", "2.2">>
openmpi310 == <<"openmpi", "@", "3.1.0">>
mpich33 == <<"mpich", "@", "3.3">>
dep_mvapich2 == <<"^", "mvapich2">>
dep_foo == <<"^", "foo">>
no_shared == <<"~", "shared">>
hash_abc == <<"/", "abc">>
cflags_O3 == <<"cflags", "=", "-", "O3">>
cflags_g_O0 == <<"cflags", "=", "\"", "-", "g", " ", "-", "O0", "\"">>

\* results of calls that may raise: [err, v]
Ok(x) == [err |-> NoErr, v |-> x]

Fail(e) == [err |-> e, v |-> <<>>]

\* xs + r.v, unless r is an error
Prepend(xs, r) == IF r.err # NoErr THEN r ELSE [r EXCEPT !.v = xs \o @]

(***************************************************************************)
(* spack.spec.Spec, the external collaborator: a spec is a package name    *)
(* (empty for an anonymous spec) and a set of constraints.  A string with  *)
(* a character the lexer does not know ($) or with no or several package   *)
(* names is no spec.                                                       *)
(***************************************************************************)
Sigils == {"$", "^", "/", "%", "~", "-", "+", "@", "=", "\""}

RECURSIVE Tokenize(_, _, _)
Tokenize(s, cur, inq) ==
    IF s = <<>> THEN (IF cur = <<>> THEN <<>> ELSE <<cur>>)
    ELSE IF Head(s) = " " /\ ~inq
         THEN (IF cur = <<>> THEN <<>> ELSE <<cur>>) \o Tokenize(Tail(s), <<>>, FALSE)
         ELSE Tokenize(Tail(s), Append(cur, Head(s)),
                       IF Head(s) = "\"" THEN ~inq ELSE inq)

IsNamedToken(tok) == tok[1] \notin Sigils /\ ~contains(tok, "=")

NamedTokens(toks) == {k \in 1..Len(toks) : IsNamedToken(toks[k])}

ParseTokens(s, toks) ==
    IF \E i \in 1..Len(toks) : startswith(toks[i], "$")
    THEN Fail(Err("SpecParseError", s))
    ELSE IF Len(toks) = 0
    THEN Fail(Err("ValueError", <<"String contains no specs">>))
    ELSE IF Cardinality(NamedTokens(toks)) > 1
    THEN Fail(Err("ValueError", <<"More than one spec in string">>))
    ELSE Ok([name |-> IF NamedTokens(toks) = {} THEN ""
                      ELSE toks[CHOOSE k \in NamedTokens(toks) : TRUE][1],
             cons |-> {toks[i] : i \in (1..Len(toks)) \ NamedTokens(toks)}
                      \cup {Tail(toks[i]) : i \in {k \in NamedTokens(toks) : Len(toks[k]) > 1}},
             concrete |-> FALSE])

\* Spec(string)
SpecOf(s) == ParseTokens(s, Tokenize(s, <<>>, FALSE))

\* a.satisfies(b)
satisfies(a, b) == (b.name = "" \/ a.name = b.name) /\ b.cons \subseteq a.cons

\* a.constrain(b): v is the new value of a
constrain(a, b) ==
    IF a.name # "" /\ b.name # "" /\ a.name # b.name
    THEN [err |-> Err("UnsatisfiableSpecNameError", <<a.name, b.name>>), v |-> a]
    ELSE Ok([name |-> IF a.name # "" THEN a.name ELSE b.name,
             cons |-> a.cons \cup b.cons, concrete |-> FALSE])

\* a.concretized() when the concretizer succeeds
concretized(a) == [a EXCEPT !.concrete = TRUE]

(***************************************************************************)
(* spec_ordering_key (lines 13-23)                                         *)
(***************************************************************************)
\* spec_ordering_key without the test of line 20 for '=' in s
spec_ordering_key_no_flags(s) ==
    IF startswith(s, "^") THEN 5
    ELSE IF startswith(s, "/") THEN 4
    ELSE IF startswith(s, "%") THEN 3
    ELSE IF \E c \in {"~", "-", "+", "@"} : startswith(s, c) THEN 2
    ELSE 1

spec_ordering_key(s) ==
    IF startswith(s, "^") THEN 5
    ELSE IF startswith(s, "/") THEN 4
    ELSE IF startswith(s, "%") THEN 3
    ELSE IF (\E c \in {"~", "-", "+", "@"} : startswith(s, c)) \/ contains(s, "=") THEN 2
    ELSE 1

\* the elements of combo with key k, in their order
WithKey(combo, k) ==
    LET Test(x) == spec_ordering_key(x) = k
    IN SelectSeq(combo, Test)

\* a sort that places the hashes before the compilers
sorted_hash_first(combo) ==
    WithKey(combo, 1) \o WithKey(combo, 2) \o WithKey(combo, 4)
      \o WithKey(combo, 3) \o WithKey(combo, 5)

\* sorted(combo, key=spec_ordering_key): Python's sort is stable
sorted(combo) ==
    WithKey(combo, 1) \o WithKey(combo, 2) \o WithKey(combo, 3)
      \o WithKey(combo, 4) \o WithKey(combo, 5)

\* ' '.join(strings)
RECURSIVE join(_)
join(ss) ==
    IF ss = <<>> THEN <<>>
    ELSE IF Len(ss) = 1 THEN ss[1]
    ELSE ss[1] \o <<" ">> \o join(Tail(ss))

RECURSIVE Flatten(_)
Flatten(sss) == IF sss = <<>> THEN <<>> ELSE Head(sss) \o Flatten(Tail(sss))

\* a product whose first axis varies fastest
Cross_first_fastest(first, rest) ==
    Flatten([j \in 1..Len(rest) |-> [i \in 1..Len(first) |-> <<first[i]>> \o rest[j]]])

\* every x of first before every tuple of rest
Cross(first, rest) ==
    Flatten([i \in 1..Len(first) |-> [j \in 1..Len(rest) |-> <<first[i]>> \o rest[j]]])

\* itertools.product(*axes): the last axis varies fastest
RECURSIVE product(_)
product(axes) ==
    IF axes = <<>> THEN << <<>> >> ELSE Cross(Head(axes), product(Tail(axes)))

(***************************************************************************)
(* Objects: the SpecList under test and the lists of its reference table.  *)
(* _reference[o] is the set of names in o's table; the table maps a name   *)
(* to the list of that name.                                               *)
(***************************************************************************)
RefNames == {"mpis", "gccs"}

Lists == {"specs"} \cup RefNames

(***************************************************************************)
(* SpecList._expand_references (lines 164-187) and the specs_as_yaml_list  *)
(* property (lines 41-45).  exp is the _expanded_list slot of every        *)
(* object: expanding a marker reads the referenced list's                  *)
(* specs_as_yaml_list, which fills that list's slot.  Results: [err, v,    *)
(* exp].  self is the object: its name, and the raw lists and reference    *)
(* tables it can reach.                                                    *)
(***************************************************************************)
Self(o) == [name |-> o, list |-> _list, reference |-> _reference]

IsMarker(item) == item.t = "str" /\ startswith(item.s, "$")

\* the idx at which the loop of line 166 finds a marker, 0 if it finds none
FirstMarker(items) ==
    IF \E i \in 1..Len(items) : IsMarker(items[i])
    THEN CHOOSE i \in 1..Len(items) :
            IsMarker(items[i]) /\ \A j \in 1..(i - 1) : ~IsMarker(items[j])
    ELSE 0

\* name in self._reference
InReference(self, name) == Len(name) = 1 /\ name[1] \in self.reference[self.name]

Expanded(x, exp) == [err |-> NoErr, v |-> x, exp |-> exp]

AsList(r) == IF r.err # NoErr THEN r ELSE [r EXCEPT !.v = List(@)]

RECURSIVE _expand_references(_, _, _)
RECURSIVE ExpandEach(_, _, _)
RECURSIVE specs_as_yaml_list(_, _)

\* the rest of [self._expand_references(i) for i in items], h the result for the first
ExpandRest(self, rest, h) ==
    IF h.err # NoErr THEN h ELSE Prepend(<<h.v>>, ExpandEach(self, rest, h.exp))

\* [self._expand_references(i) for i in items]
ExpandEach(self, items, exp) ==
    IF items = <<>> THEN Expanded(<<>>, exp)
    ELSE ExpandRest(self, Tail(items), _expand_references(self, Head(items), exp))

\* lines 172-174: ret += the items after the marker, each expanded on its own
SpliceAfter(ret, c) == IF c.err # NoErr THEN c ELSE [c EXCEPT !.v = List(ret \o @)]

\* line 171: ret += self._reference[name].specs_as_yaml_list
SpliceReference(self, after, ret, b) ==
    IF b.err # NoErr THEN b ELSE SpliceAfter(ret \o b.v, ExpandEach(self, after, b.exp))

\* line 170: ret = the items before the marker, expanded
SpliceBefore(self, name, after, a) ==
    IF a.err # NoErr THEN a
    ELSE SpliceReference(self, after, a.v,
                         specs_as_yaml_list([self EXCEPT !.name = name], a.exp))

\* lines 181-184: the values of a dict, expanded
ExpandExclude(yaml, m, x) ==
    IF x.err # NoErr THEN x ELSE [x EXCEPT !.v = [yaml EXCEPT !.matrix = m, !.exclude = x.v]]

ExpandMatrix(self, yaml, m) ==
    IF m.err # NoErr THEN m
    ELSE IF ~yaml.hasExclude THEN [m EXCEPT !.v = [yaml EXCEPT !.matrix = m.v]]
    ELSE ExpandExclude(yaml, m.v, _expand_references(self, yaml.exclude, m.exp))

\* lines 166-178: the marker at idx
ExpandMarker(self, items, idx, exp) ==
    IF InReference(self, Tail(items[idx].s))
    THEN SpliceBefore(self, items[idx].s[2], SubSeq(items, idx + 1, Len(items)),
                      ExpandEach(self, SubSeq(items, 1, idx - 1), exp))
    ELSE \* raise InvalidReferenceError(msg): no such name is defined
         [err |-> Err("NameError", <<"InvalidReferenceError">>), v |-> <<>>, exp |-> exp]

_expand_references(self, yaml, exp) ==
    IF yaml.t = "list"
    THEN IF FirstMarker(yaml.items) # 0
         THEN ExpandMarker(self, yaml.items, FirstMarker(yaml.items), exp)
         ELSE AsList(ExpandEach(self, yaml.items, exp))
    ELSE IF yaml.t = "dict"
    THEN ExpandMatrix(self, yaml, _expand_references(self, yaml.matrix, exp))
    ELSE Expanded(yaml, exp)

\* line 44: self._expanded_list = self._expand_references(self._list)
StoreExpanded(self, r) ==
    IF r.err # NoErr THEN r
    ELSE [err |-> NoErr, v |-> r.v.items, exp |-> [r.exp EXCEPT ![self.name] = Some(r.v.items)]]

specs_as_yaml_list(self, exp) ==
    IF exp[self.name].some THEN Expanded(exp[self.name].v, exp)
    ELSE StoreExpanded(self, _expand_references(self, List(self.list[self.name]), exp))

(***************************************************************************)
(* The slots of list o that the properties read and fill: exp is           *)
(* _expanded_list of every object, the others are o's.  The Spec objects   *)
(* created by specs_as_constraints live in heap[o][i][j] (constraint list  *)
(* i, j-th fragment of its sorted combination); cons[i] is the sequence of *)
(* the j that constraint list i holds and specs[i] the j of merged spec i, *)
(* so that an object shared by two views is shared in the model.           *)
(***************************************************************************)
Slots(o) ==
    [err |-> NoErr, exp |-> _expanded_list, cons |-> _constraints[o], heap |-> heap[o],
     specs |-> _specs[o], concrete |-> _concrete_specs[o], calls |-> <<>>]

(***************************************************************************)
(* The specs_as_constraints property (lines 47-67)                         *)
(***************************************************************************)
RECURSIVE SpecEach(_)
SpecEachRest(h, rest) == IF h.err # NoErr THEN h ELSE Prepend(<<h.v>>, SpecEach(rest))

\* [Spec(x) for x in strings]
SpecEach(ss) == IF ss = <<>> THEN Ok(<<>>) ELSE SpecEachRest(SpecOf(Head(ss)), Tail(ss))

RECURSIVE AnyExcluded(_, _)
AnyExcludedRest(test_spec, x, rest) ==
    IF x.err # NoErr THEN x
    ELSE IF satisfies(test_spec, x.v) THEN Ok(TRUE)
    ELSE AnyExcluded(test_spec, rest)

\* line 58: any(test_spec.satisfies(x) for x in excludes)
AnyExcluded(test_spec, excludes) ==
    IF excludes = <<>> THEN Ok(FALSE)
    ELSE AnyExcludedRest(test_spec, SpecOf(Head(excludes)), Tail(excludes))

RECURSIVE MatrixConstraints(_, _)
\* line 62: constraints.append([Spec(x) for x in ordered_combo])
ComboAppend(cl, rest, excludes) ==
    IF cl.err # NoErr THEN cl ELSE Prepend(<<cl.v>>, MatrixConstraints(rest, excludes))

\* the loop body without the test of lines 58-59
ComboFilter_keep(ordered_combo, ex, rest, excludes) ==
    IF ex.err # NoErr THEN ex
    ELSE ComboAppend(SpecEach(ordered_combo), rest, excludes)

\* lines 58-59: if any(...): continue
ComboFilter(ordered_combo, ex, rest, excludes) ==
    IF ex.err # NoErr THEN ex
    ELSE IF ex.v THEN MatrixConstraints(rest, excludes)
    ELSE ComboAppend(SpecEach(ordered_combo), rest, excludes)

\* line 57: test_spec = Spec(' '.join(ordered_combo))
ComboTest(ordered_combo, test_spec, rest, excludes) ==
    IF test_spec.err # NoErr THEN test_spec
    ELSE ComboFilter(ordered_combo, AnyExcluded(test_spec.v, excludes), rest, excludes)

\* line 56: ordered_combo = sorted(combo, key=spec_ordering_key)
Combo(ordered_combo, rest, excludes) ==
    ComboTest(ordered_combo, SpecOf(join(ordered_combo)), rest, excludes)

\* the loop of lines 54-62 over the combinations of one matrix
MatrixConstraints(combos, excludes) ==
    IF combos = <<>> THEN Ok(<<>>) ELSE Combo(sorted(Head(combos)), Tail(combos), excludes)

Strings(list) == [k \in 1..Len(list.items) |-> list.items[k].s]

\* item['matrix']
Axes(item) == [a \in 1..Len(item.matrix.items) |-> Strings(item.matrix.items[a])]

\* item.get('exclude', [])
Excludes(item) == IF item.hasExclude THEN Strings(item.exclude) ELSE <<>>

\* line 64: constraints.append([Spec(item)])
PlainConstraints(sp) == IF sp.err # NoErr THEN sp ELSE Ok(<< <<sp.v>> >>)

ItemConstraints(item) ==
    IF item.t = "dict"
    THEN MatrixConstraints(product(Axes(item)), Excludes(item))
    ELSE PlainConstraints(SpecOf(item.s))

RECURSIVE BuildConstraints(_)
BuildRest(h, rest) == IF h.err # NoErr THEN h ELSE Prepend(h.v, BuildConstraints(rest))

\* the loop of lines 51-64 over self.specs_as_yaml_list
BuildConstraints(items) ==
    IF items = <<>> THEN Ok(<<>>) ELSE BuildRest(ItemConstraints(Head(items)), Tail(items))

Ids(objs) == [i \in 1..Len(objs) |-> [j \in 1..Len(objs[i]) |-> j]]

\* line 65: self._constraints = constraints
StoreConstraints(st, b) ==
    IF b.err # NoErr THEN [st EXCEPT !.err = b.err]
    ELSE [st EXCEPT !.cons = Some(Ids(b.v)), !.heap = b.v]

ConstraintsOfYaml(st, e) ==
    IF e.err # NoErr THEN [st EXCEPT !.err = e.err, !.exp = e.exp]
    ELSE StoreConstraints([st EXCEPT !.exp = e.exp], BuildConstraints(e.v))

specs_as_constraints(self, st) ==
    IF st.cons.some THEN st ELSE ConstraintsOfYaml(st, specs_as_yaml_list(self, st.exp))

(***************************************************************************)
(* The specs property (lines 69-82): spec = constraint_list[0] is the      *)
(* object of the constraint list, and constrain changes it in place.       *)
(***************************************************************************)
RECURSIVE ConstrainAll(_, _)
ConstrainRest(c, rest) == IF c.err # NoErr THEN c ELSE ConstrainAll(c.v, rest)

\* for const in others: spec.constrain(const)
ConstrainAll(spec, others) ==
    IF others = <<>> THEN Ok(spec) ELSE ConstrainRest(constrain(spec, Head(others)), Tail(others))

Deref(objs, js) == [k \in 1..Len(js) |-> objs[js[k]]]

RECURSIVE MergeLists(_, _, _)
\* line 79: specs.append(spec), m the result of the loop of lines 77-78
MergeAppend(cons, hp, i, m) ==
    IF m.err # NoErr THEN [err |-> m.err, heap |-> hp, v |-> <<>>]
    ELSE Prepend(<<cons[i][1]>>, MergeLists(cons, hp, i + 1))

MergeOne(cons, hp, i, m) ==
    MergeAppend(cons, [hp EXCEPT ![i][cons[i][1]] = m.v], i, m)

\* the loop of lines 75-79 from constraint list i on: [err, heap, v]
MergeLists(cons, hp, i) ==
    IF i > Len(cons) THEN [err |-> NoErr, heap |-> hp, v |-> <<>>]
    ELSE IF cons[i] = <<>>
    THEN [err |-> Err("IndexError", <<"list index out of range">>), heap |-> hp, v |-> <<>>]
    ELSE MergeOne(cons, hp, i, ConstrainAll(hp[i][cons[i][1]], Deref(hp[i], Tail(cons[i]))))

\* line 80: self._specs = specs
StoreSpecs(c, m) ==
    [c EXCEPT !.err = m.err, !.heap = m.heap,
              !.specs = IF m.err = NoErr THEN Some(m.v) ELSE None]

SpecsOfConstraints(c) ==
    IF c.err # NoErr THEN c ELSE StoreSpecs(c, MergeLists(c.cons.v, c.heap, 1))

specs(self, st) ==
    IF st.specs.some THEN st ELSE SpecsOfConstraints(specs_as_constraints(self, st))

(***************************************************************************)
(* The concrete_specs property (lines 84-130).  The external concretizer   *)
(* succeeds on every constraint list, or raises an error of class kind at  *)
(* constraint list k.  sBound: whether the local variable s is bound (the  *)
(* list comprehension of line 90 binds it in Python 2).  calls counts, for  *)
(* every constraint list the loop has entered, the calls of s.concretized. *)
(***************************************************************************)
ConcretizerErrors == {"InvalidDependencyError", "UnknownVariantError", "ConcretizationError"}

RemoveAt(seq, k) == SubSeq(seq, 1, k - 1) \o SubSeq(seq, k + 1, Len(seq))

\* list.remove(x) drops the first element equal to x: its position
FirstEqual(objs, js, x) ==
    CHOOSE k \in 1..Len(js) : objs[js[k]] = x /\ \A m \in 1..(k - 1) : objs[js[m]] # x

\* a bare except clause in front of the handlers, which wraps every error
HandlerError_wrap(kind) ==
    IF kind \in {"InvalidDependencyError", "UnknownVariantError"}
    THEN Err("NameError", <<"handler">>)
    ELSE Err("SpackError", <<kind>>)

\* what the handlers of lines 108-127 raise: invalid_depstring and re are not defined
HandlerError(kind) ==
    IF kind = "InvalidDependencyError" THEN Err("NameError", <<"invalid_depstring">>)
    ELSE IF kind = "UnknownVariantError" THEN Err("NameError", <<"re">>)
    ELSE Err(kind, <<>>)

\* root_spec = [s for s in constraint_list if s.name]
RootSpec(objs, js) ==
    LET HasName(j) == objs[j].name # ""
    IN SelectSeq(js, HasName)

RECURSIVE ConcretizeLists(_, _, _, _, _, _)
\* the constraint list before those of r has called the concretizer n times
Called(n, r) == [r EXCEPT !.calls = <<n>> \o @]

\* handlers that swallow the error and go round the loop with nothing marked invalid
Attempt_retry(cons, hp, i, m, k, kind) ==
    IF m.err # NoErr
    THEN [err |-> m.err, cons |-> cons, heap |-> hp, v |-> <<>>, calls |-> <<0>>]
    ELSE Called(IF i = k THEN 2 ELSE 1,
                Prepend(<<concretized(m.v)>>,
                        ConcretizeLists(cons, hp, i + 1, TRUE, k, kind)))

\* lines 105-107: concrete_specs.append(s.concretized()), m the result of lines 101-104
Attempt(cons, hp, i, m, k, kind) ==
    IF m.err # NoErr
    THEN [err |-> m.err, cons |-> cons, heap |-> hp, v |-> <<>>, calls |-> <<0>>]
    ELSE IF i = k
    THEN [err |-> HandlerError(kind), cons |-> cons, heap |-> hp, v |-> <<>>, calls |-> <<1>>]
    ELSE Called(1, Prepend(<<concretized(m.v)>>,
                           ConcretizeLists(cons, hp, i + 1, TRUE, k, kind)))

\* lines 101-104: s = root_spec[0], constrained by every c of the list (none is invalid yet)
AttachAll(cons, hp, i, root, m, k, kind) ==
    Attempt(cons, [hp EXCEPT ![i][root] = m.v], i, m, k, kind)

\* line 96: constraint_list.remove(root_spec[0])
RemoveRoot(cons, hp, i, root, rest, k, kind) ==
    AttachAll([cons EXCEPT ![i] = rest], hp, i, root,
              ConstrainAll(hp[i][root], Deref(hp[i], rest)), k, kind)

\* the loop of lines 88-127 from constraint list i on: [err, cons, heap, v]
ConcretizeLists(cons, hp, i, sBound, k, kind) ==
    IF i > Len(cons)
    THEN [err |-> NoErr, cons |-> cons, heap |-> hp, v |-> <<>>, calls |-> <<>>]
    ELSE IF Len(RootSpec(hp[i], cons[i])) # 1
    THEN [err |-> IF sBound \/ cons[i] # <<>>
                  THEN Err("InvalidSpecConstraintError", <<>>)
                  ELSE Err("UnboundLocalError", <<"s">>),
          cons |-> cons, heap |-> hp, v |-> <<>>, calls |-> <<0>>]
    ELSE RemoveRoot(cons, hp, i, RootSpec(hp[i], cons[i])[1],
                    RemoveAt(cons[i], FirstEqual(hp[i], cons[i], hp[i][RootSpec(hp[i], cons[i])[1]])),
                    k, kind)

\* line 128: self._concrete_specs = concrete_specs
StoreConcrete(c, m) ==
    [c EXCEPT !.err = m.err, !.cons = Some(m.cons), !.heap = m.heap, !.calls = m.calls,
              !.concrete = IF m.err = NoErr THEN Some(m.v) ELSE None]

ConcreteOfConstraints(c, k, kind) ==
    IF c.err # NoErr THEN c
    ELSE StoreConcrete(c, ConcretizeLists(c.cons.v, c.heap, 1, FALSE, k, kind))

concrete_specs(self, st, k, kind) ==
    IF st.concrete.some THEN st ELSE ConcreteOfConstraints(specs_as_constraints(self, st), k, kind)

(***************************************************************************)
(* What the views hold: Spec values in place of objects                    *)
(***************************************************************************)
ConstraintValues(hp, cons) == [i \in 1..Len(cons) |-> Deref(hp[i], cons[i])]

SpecValues(hp, sp) == [i \in 1..Len(sp) |-> hp[i][sp[i]]]

(***************************************************************************)
(* State after construction (lines 27-38) of the lists of                  *)
(* test/spec_list.py and of further declared lists                         *)
(***************************************************************************)
default_input ==
    << Str(mpileaks), Str(ref_mpis),
       Matrix(<< List(<<Str(zlib)>>), List(<<Str(ref_gccs), Str(intel18)>>) >>),
       Str(libelf) >>

ordering_input ==
    << Matrix(<< List(<<Str(dep_mvapich2)>>), List(<<Str(gcc493)>>),
                 List(<<Str(zlib), Str(libelf)>>), List(<<Str(no_shared)>>),
                 List(<<Str(cflags_O3), Str(cflags_g_O0)>>), List(<<Str(dep_foo)>>) >>) >>

two_markers_input == << Str(ref_gccs), Str(libelf), Str(ref_mpis), Str(libelf) >>

exclude_input ==
    << MatrixExcl(<< List(<<Str(zlib), Str(libelf)>>), List(<<Str(gcc493), Str(intel18)>>) >>,
                  << Str(libelf \o <<" ">> \o intel18) >>),
       Str(libelf) >>

anonymous_input ==
    << Str(zlib),
       Matrix(<< List(<<Str(hash_abc)>>), List(<<Str(libelf), Str(no_shared)>>),
                 List(<<Str(ref_gccs)>>) >>) >>

InitLists == {default_input, ordering_input, two_markers_input, exclude_input, anonymous_input}

NoOp ==
    [op |-> "__init__", obj |-> "specs", arg |-> <<>>, err |-> NoErr, calls |-> <<>>,
     fail |-> [at |-> 0, kind |-> "", ids |-> {}]]

Init ==
    /\ \E l \in InitLists :
         _list = [o \in Lists |-> IF o = "mpis" THEN <<Str(mvapich22), Str(openmpi310)>>
                                  ELSE IF o = "gccs" THEN <<Str(gcc493), Str(gcc730)>>
                                  ELSE l]
    /\ _reference = [o \in Lists |-> IF o = "specs" THEN RefNames ELSE {}]
    /\ _expanded_list = [o \in Lists |-> None]
    /\ _constraints = [o \in Lists |-> None]
    /\ _specs = [o \in Lists |-> None]
    /\ _concrete_specs = [o \in Lists |-> None]
    /\ heap = [o \in Lists |-> <<>>]
    /\ last = NoOp
    /\ nmut = 0

(***************************************************************************)
(* Reads of the views                                                      *)
(***************************************************************************)
\* the concretizer has raised nothing
NoFail == [at |-> 0, kind |-> "", ids |-> {}]

\* a step: the call made and the exception it raised; for a read of concrete_specs
\* also the calls of the concretizer and the error the concretizer raised
Call(op, o, arg, err) ==
    [op |-> op, obj |-> o, arg |-> arg, err |-> err, calls |-> <<>>, fail |-> NoFail]

\* the slots of o after a property has run
Store(o, st) ==
    /\ _expanded_list' = st.exp
    /\ _constraints' = [_constraints EXCEPT ![o] = st.cons]
    /\ heap' = [heap EXCEPT ![o] = st.heap]
    /\ _specs' = [_specs EXCEPT ![o] = st.specs]
    /\ _concrete_specs' = [_concrete_specs EXCEPT ![o] = st.concrete]
    /\ UNCHANGED <<_list, _reference, nmut>>

ReadYamlList(o) ==
    \E r \in {specs_as_yaml_list(Self(o), _expanded_list)} :
       /\ _expanded_list' = r.exp
       /\ last' = Call("specs_as_yaml_list", o, <<>>, r.err)
       /\ UNCHANGED <<_list, _reference, _constraints, _specs, _concrete_specs, heap, nmut>>

ReadConstraints(o) ==
    \E st \in {specs_as_constraints(Self(o), Slots(o))} :
       /\ Store(o, st)
       /\ last' = Call("specs_as_constraints", o, <<>>, st.err)

ReadSpecs(o) ==
    \E st \in {specs(Self(o), Slots(o))} :
       /\ Store(o, st)
       /\ last' = Call("specs", o, <<>>, st.err)

\* the identifiers an error of the concretizer reports: a dependency or a variant name
Offending(kind) ==
    IF kind = "InvalidDependencyError" THEN {{"foo"}, {"nosuch"}}
    ELSE IF kind = "UnknownVariantError" THEN {{"shared"}, {"nosuch"}}
    ELSE {{}}

\* the concretizer was called for constraint list k and raised
Raised(st, k) == k >= 1 /\ Len(st.calls) = k /\ st.calls[k] >= 1

ReadConcreteSpecs(o) ==
    \E k \in 0..MaxFail :
    \E kind \in IF k = 0 THEN {"ok"} ELSE ConcretizerErrors :
    \E ids \in Offending(kind) :
    \E st \in {concrete_specs(Self(o), Slots(o), k, kind)} :
       /\ Store(o, st)
       /\ last' = [Call("concrete_specs", o, <<>>, st.err) EXCEPT
                     !.calls = st.calls,
                     !.fail = IF Raised(st, k)
                              THEN [at |-> k, kind |-> kind, ids |-> ids] ELSE NoFail]

\* __len__ (lines 189-190)
SpecListLen(o) ==
    \E st \in {specs(Self(o), Slots(o))} :
       /\ Store(o, st)
       /\ last' = Call("__len__", o, <<>>, st.err)

\* self.specs[key], key counted from 0
GetItemError(st, key) ==
    IF st.err # NoErr THEN st.err
    ELSE IF key >= Len(st.specs.v) THEN Err("IndexError", <<"list index out of range">>)
    ELSE NoErr

\* __getitem__ (lines 192-193)
SpecListGetItem(o, key) ==
    \E st \in {specs(Self(o), Slots(o))} :
       /\ Store(o, st)
       /\ last' = Call("__getitem__", o, <<key>>, GetItemError(st, key))

(***************************************************************************)
(* Mutators                                                                *)
(***************************************************************************)
AddSpecs == {libelf, mpich33}

RemoveSpecs == {libelf, zlib}

\* the reference tables handed to update_reference: default_reference, and one without mpis
Tables == {RefNames, {"gccs"}}

\* an invalidation that leaves the constraint lists cached
Invalidate_keep_constraints(o, tier1) ==
    /\ _expanded_list' = [_expanded_list EXCEPT ![o] = tier1]
    /\ _specs' = [_specs EXCEPT ![o] = None]
    /\ _concrete_specs' = [_concrete_specs EXCEPT ![o] = None]
    /\ UNCHANGED <<_constraints, heap>>

\* lines 138-141, 152-155, 159-162
Invalidate(o, tier1) ==
    /\ _expanded_list' = [_expanded_list EXCEPT ![o] = tier1]
    /\ _constraints' = [_constraints EXCEPT ![o] = None]
    /\ _specs' = [_specs EXCEPT ![o] = None]
    /\ _concrete_specs' = [_concrete_specs EXCEPT ![o] = None]
    /\ heap' = [heap EXCEPT ![o] = <<>>]

\* add (lines 132-141); spec is a string, so that str(spec) is spec
add(o, spec) ==
    /\ IF o = "specs" THEN nmut < MaxMut ELSE Len(_list[o]) < MaxRefLen
    /\ nmut' = IF o = "specs" THEN nmut + 1 ELSE nmut
    /\ _list' = [_list EXCEPT ![o] = Append(@, Str(spec))]
    /\ IF ~_expanded_list[o].some
       THEN \* line 136: None has no attribute append
            /\ last' = Call("add", o, spec, Err("AttributeError", <<"append">>))
            /\ UNCHANGED <<_expanded_list, _constraints, _specs, _concrete_specs, heap>>
       ELSE /\ Invalidate(o, Some(Append(_expanded_list[o].v, Str(spec))))
            /\ last' = Call("add", o, spec, NoErr)
    /\ UNCHANGED _reference

RECURSIVE RemoveMatches(_, _, _)
RemoveMatch(l, spec, i, a, b) ==
    IF a.err # NoErr THEN a
    ELSE IF b.err # NoErr THEN b
    ELSE Prepend(IF a.v = b.v THEN <<i>> ELSE <<>>, RemoveMatches(l, spec, i + 1))

\* the list comprehension of lines 145-147 from position i on: the matching positions
RemoveMatches(l, spec, i) ==
    IF i > Len(l) THEN Ok(<<>>)
    ELSE IF l[i].t = "str" /\ ~startswith(l[i].s, "$")
    THEN RemoveMatch(l, spec, i, SpecOf(l[i].s), SpecOf(spec))
    ELSE RemoveMatches(l, spec, i + 1)

\* self._list.remove(x): drops the first element equal to x
ListRemove(l, x) ==
    RemoveAt(l, CHOOSE k \in 1..Len(l) : l[k] = x /\ \A m \in 1..(k - 1) : l[m] # x)

\* no assertion: remove[0] is the first match, if there is one
RemoveError_unchecked(m) ==
    IF m.err # NoErr THEN m.err
    ELSE IF Len(m.v) = 0 THEN Err("IndexError", <<"list index out of range">>)
    ELSE NoErr

\* line 148: assert len(remove) == 1
RemoveError(m) ==
    IF m.err # NoErr THEN m.err
    ELSE IF Len(m.v) # 1 THEN Err("AssertionError", <<>>)
    ELSE NoErr

\* remove (lines 143-155)
remove(o, spec) ==
    \E m \in {RemoveMatches(_list[o], spec, 1)} :
       /\ nmut < MaxMut
       /\ nmut' = nmut + 1
       /\ last' = Call("remove", o, spec, RemoveError(m))
       /\ IF RemoveError(m) # NoErr
          THEN UNCHANGED <<_list, _expanded_list, _constraints, _specs, _concrete_specs, heap>>
          ELSE /\ _list' = [_list EXCEPT ![o] = ListRemove(@, @[m.v[1]])]
               /\ Invalidate(o, None)
       /\ UNCHANGED _reference

\* update_reference (lines 157-162)
update_reference(o, T) ==
    /\ nmut < MaxMut
    /\ nmut' = nmut + 1
    /\ _reference' = [_reference EXCEPT ![o] = T]
    /\ Invalidate(o, None)
    /\ last' = Call("update_reference", o, <<>>, NoErr)
    /\ UNCHANGED _list

Next ==
    \/ \E o \in {"specs", "mpis"} : ReadYamlList(o)
    \/ ReadConstraints("specs")
    \/ ReadSpecs("specs")
    \/ ReadConcreteSpecs("specs")
    \/ SpecListLen("specs")
    \/ \E key \in 0..MaxKey : SpecListGetItem("specs", key)
    \/ \E spec \in AddSpecs : add("specs", spec)
    \/ add("mpis", mpich33)
    \/ \E spec \in RemoveSpecs : remove("specs", spec)
    \/ \E T \in Tables : update_reference("specs", T)

Spec == Init /\ [][Next]_vars


(***************************************************************************)
(* What a read of a view returns in the current state                      *)
(***************************************************************************)
ConstraintsViewOf(st) ==
    IF st.err # NoErr THEN Fail(st.err) ELSE Ok(ConstraintValues(st.heap, st.cons.v))

SpecsViewOf(st) ==
    IF st.err # NoErr THEN Fail(st.err) ELSE Ok(SpecValues(st.heap, st.specs.v))

YamlView(o) == specs_as_yaml_list(Self(o), _expanded_list)

ConstraintsView(o) == ConstraintsViewOf(specs_as_constraints(Self(o), Slots(o)))

SpecsView(o) == SpecsViewOf(specs(Self(o), Slots(o)))

\* the same reads in the state after a step
SelfNext(o) == [name |-> o, list |-> _list', reference |-> _reference']

SlotsNext(o) ==
    [err |-> NoErr, exp |-> _expanded_list', cons |-> _constraints'[o], heap |-> heap'[o],
     specs |-> _specs'[o], concrete |-> _concrete_specs'[o], calls |-> <<>>]

YamlViewNext(o) == specs_as_yaml_list(SelfNext(o), _expanded_list')

ConstraintsViewNext(o) == ConstraintsViewOf(specs_as_constraints(SelfNext(o), SlotsNext(o)))

SpecsViewNext(o) == SpecsViewOf(specs(SelfNext(o), SlotsNext(o)))

ReadOps == {"specs_as_yaml_list", "specs_as_constraints", "specs", "concrete_specs"}

AllCleared(o) ==
    /\ _expanded_list[o] = None
    /\ _constraints[o] = None
    /\ _specs[o] = None
    /\ _concrete_specs[o] = None

Range(seq) == {seq[i] : i \in 1..Len(seq)}

InsertAt(seq, p, x) == SubSeq(seq, 1, p - 1) \o <<x>> \o SubSeq(seq, p, Len(seq))

\* post is pre with x inserted directly after an occurrence of the entries old
InsertedAfter(pre, post, old, x) ==
    \E p \in (Len(old) + 1)..(Len(pre) + 1) :
       /\ post = InsertAt(pre, p, x)
       /\ SubSeq(pre, p - Len(old), p - 1) = old

\* the combinations of a matrix whose probe spec satisfies no exclude pattern
Survivors(item) ==
    LET Keep(combo) == \A x \in Range(Excludes(item)) :
                          ~satisfies(SpecOf(join(sorted(combo))).v, SpecOf(x).v)
    IN SelectSeq(product(Axes(item)), Keep)

\* the fragments of the constraint lists that an expanded list stands for
ExpectedFragments(items) ==
    Flatten([i \in 1..Len(items) |->
               IF items[i].t = "dict"
               THEN [k \in 1..Len(Survivors(items[i])) |-> sorted(Survivors(items[i])[k])]
               ELSE << <<items[i].s>> >>])

NamedCount(frags) == Cardinality({j \in 1..Len(frags) : SpecOf(frags[j]).v.name # ""})

\* the strings of a yaml value, at any depth
RECURSIVE StringsIn(_)
StringsIn(y) ==
    IF y.t = "str" THEN {y.s}
    ELSE IF y.t = "list" THEN UNION {StringsIn(y.items[i]) : i \in 1..Len(y.items)}
    ELSE StringsIn(y.matrix) \cup StringsIn(y.exclude)

\* the names of the reference markers of o's raw list, at any depth
MarkerNames(o) == {Tail(s) : s \in {x \in StringsIn(List(_list[o])) : startswith(x, "$")}}

MissingNames(o) == {n \in MarkerNames(o) : ~InReference(Self(o), n)}

\* the expansion that replaces every marker by the elements of the list it names
RECURSIVE IdealExpand(_)
IdealExpand(y) ==
    IF y.t = "list"
    THEN List(Flatten([i \in 1..Len(y.items) |->
                         IF IsMarker(y.items[i])
                         THEN IdealExpand(List(_list[y.items[i].s[2]])).items
                         ELSE <<IdealExpand(y.items[i])>>]))
    ELSE IF y.t = "dict"
    THEN [y EXCEPT !.matrix = IdealExpand(y.matrix), !.exclude = IdealExpand(y.exclude)]
    ELSE y

(***************************************************************************)
(* C1: between mutations, every read of a view returns the value of the    *)
(* view's first read, and the logic behind a view runs at most once: a     *)
(* read of any of the four views leaves every view that is already         *)
(* populated with the same slot and the same content.                      *)
(***************************************************************************)
C1_ReadsIdempotent ==
    [][ \A o \in Lists :
          (last'.op \in ReadOps /\ last'.obj = o) =>
             /\ _expanded_list[o].some => _expanded_list'[o] = _expanded_list[o]
             /\ _constraints[o].some =>
                   /\ _constraints'[o] = _constraints[o]
                   /\ ConstraintValues(heap'[o], _constraints'[o].v)
                        = ConstraintValues(heap[o], _constraints[o].v)
             /\ _specs[o].some =>
                   /\ _specs'[o] = _specs[o]
                   /\ SpecValues(heap'[o], _specs'[o].v) = SpecValues(heap[o], _specs[o].v)
             /\ _concrete_specs[o].some => _concrete_specs'[o] = _concrete_specs[o]
      ]_vars

(***************************************************************************)
(* C2: in any state, add(s) of a plain spec s succeeds, and the expanded   *)
(* elements, the constraint lists and the merged specs are afterwards      *)
(* their values before the add followed by one entry for s.                *)
(***************************************************************************)
C2_AddAppends ==
    [][ \A o \in Lists :
          (/\ last'.op = "add" /\ last'.obj = o
           /\ YamlView(o).err = NoErr
           /\ ConstraintsView(o).err = NoErr
           /\ SpecsView(o).err = NoErr) =>
             /\ last'.err = NoErr
             /\ YamlViewNext(o).v = Append(YamlView(o).v, Str(last'.arg))
             /\ ConstraintsViewNext(o).v = Append(ConstraintsView(o).v, <<SpecOf(last'.arg).v>>)
             /\ SpecsViewNext(o).v = Append(SpecsView(o).v, SpecOf(last'.arg).v)
      ]_vars

(***************************************************************************)
(* C3: remove(s) with exactly one plain raw element equal to s as a spec   *)
(* removes that element, keeps the order of the others and clears the four *)
(* caches; with no or several such elements it fails and changes neither   *)
(* the raw list nor a cache.                                               *)
(***************************************************************************)
PlainMatches(l, spec) ==
    {i \in 1..Len(l) : /\ l[i].t = "str"
                       /\ ~startswith(l[i].s, "$")
                       /\ SpecOf(l[i].s).v = SpecOf(spec).v}

C3_RemoveExactlyOne ==
    [][ \A o \in Lists :
          (last'.op = "remove" /\ last'.obj = o) =>
             IF Cardinality(PlainMatches(_list[o], last'.arg)) = 1
             THEN /\ last'.err = NoErr
                  /\ _list'[o] = RemoveAt(_list[o], CHOOSE i \in PlainMatches(_list[o], last'.arg) : TRUE)
                  /\ AllCleared(o)'
             ELSE /\ last'.err.kind = "AssertionError"
                  /\ UNCHANGED <<_list, _expanded_list, _constraints, _specs,
                                 _concrete_specs, heap>>
      ]_vars

\* a remove has dropped one of several raw elements of a list whose views had been read
C3_Witness ==
    /\ last.op = "remove" /\ last.err = NoErr /\ last.arg = libelf
    /\ AllCleared("specs")
    /\ _list["specs"] = << Str(mpileaks), Str(ref_mpis), default_input[3] >>

(***************************************************************************)
(* C4: when a list named by a marker of the Named List has gained a        *)
(* trailing element e and update_reference is called with the updated      *)
(* table, the expanded elements, the constraint lists and the merged specs *)
(* are afterwards their values before the update with the form of e        *)
(* inserted directly after the entries that list contributed before.       *)
(***************************************************************************)
Front(seq) == SubSeq(seq, 1, Len(seq) - 1)

C4_UpdateReferencePropagates ==
    [][ \A r \in RefNames :
          (/\ last'.op = "update_reference"
           /\ last.op = "add" /\ last.obj = r /\ last.err = NoErr
           /\ r \in _reference'["specs"]
           /\ Str(<<"$", r>>) \in Range(_list["specs"])
           /\ _expanded_list["specs"].some) =>
             /\ YamlViewNext("specs").err = NoErr
             /\ InsertedAfter(YamlView("specs").v, YamlViewNext("specs").v,
                              Front(_expanded_list[r].v), Str(last.arg))
             /\ ConstraintsView("specs").err = NoErr =>
                  /\ ConstraintsViewNext("specs").err = NoErr
                  /\ InsertedAfter(ConstraintsView("specs").v, ConstraintsViewNext("specs").v,
                                   [i \in 1..(Len(_expanded_list[r].v) - 1) |->
                                       <<SpecOf(_expanded_list[r].v[i].s).v>>],
                                   <<SpecOf(last.arg).v>>)
             /\ SpecsView("specs").err = NoErr =>
                  /\ SpecsViewNext("specs").err = NoErr
                  /\ InsertedAfter(SpecsView("specs").v, SpecsViewNext("specs").v,
                                   [i \in 1..(Len(_expanded_list[r].v) - 1) |->
                                       SpecOf(_expanded_list[r].v[i].s).v],
                                   SpecOf(last.arg).v)
      ]_vars

(***************************************************************************)
(* C5: when every reference marker of the raw list, at any depth, names a  *)
(* list of the reference table, the expanded elements hold no marker       *)
(* string at any depth, and expanding the raw list replaces every marker   *)
(* in place by the elements of the list it names.                          *)
(***************************************************************************)
C5_EveryMarkerSpliced ==
    MissingNames("specs") = {} =>
       /\ YamlView("specs").err = NoErr
       /\ \A s \in StringsIn(List(YamlView("specs").v)) : ~startswith(s, "$")
       /\ specs_as_yaml_list(Self("specs"), [_expanded_list EXCEPT !["specs"] = None]).v
            = IdealExpand(List(_list["specs"])).items

(***************************************************************************)
(* C6: when a reference marker of the raw list, at any depth and at any    *)
(* position, names a list that the reference table lacks, reading the      *)
(* expanded elements fails with UndefinedReferenceError for the owning     *)
(* list's name and the missing name.                                       *)
(***************************************************************************)
C6_UndefinedReferenceError ==
    MissingNames("specs") # {} =>
       \E n \in MissingNames("specs") :
          YamlView("specs").err = Err("UndefinedReferenceError", <<"specs">> \o n)

(***************************************************************************)
(* C7: a combination of a matrix whose probe spec (the spec of its sorted  *)
(* fragments) satisfies an exclude pattern of the matrix has no entry in   *)
(* the constraint lists, the merged specs or the concrete specs, and every *)
(* other combination has exactly one entry in each: a populated view has   *)
(* one entry per plain element and per surviving combination, in order,    *)
(* and the entry carries the fragments of its combination.                 *)
(***************************************************************************)
FragmentsOf(frags) == UNION {SpecOf(frags[j]).v.cons : j \in 1..Len(frags)}

C7_ExcludedCombinationsAbsent ==
    \A o \in Lists :
       LET exp == ExpectedFragments(_expanded_list[o].v)
       IN /\ _constraints[o].some =>
               /\ Len(_constraints[o].v) = Len(exp)
               /\ Len(heap[o]) = Len(exp)
               /\ \A i \in 1..Len(exp) :
                     /\ Len(heap[o][i]) = Len(exp[i])
                     /\ \A j \in 1..Len(exp[i]) :
                           SpecOf(exp[i][j]).v.cons \subseteq heap[o][i][j].cons
          /\ _specs[o].some =>
               /\ Len(_specs[o].v) = Len(exp)
               /\ \A i \in 1..Len(exp) :
                     FragmentsOf(exp[i]) = SpecValues(heap[o], _specs[o].v)[i].cons
          /\ _concrete_specs[o].some =>
               /\ Len(_concrete_specs[o].v) = Len(exp)
               /\ \A i \in 1..Len(exp) :
                     /\ _concrete_specs[o].v[i].concrete
                     /\ FragmentsOf(exp[i]) = _concrete_specs[o].v[i].cons

\* the three views of a list with an excluded combination have been computed
C7_Witness ==
    /\ _constraints["specs"].some /\ _specs["specs"].some /\ _concrete_specs["specs"].some
    /\ \E i \in 1..Len(_expanded_list["specs"].v) :
          /\ _expanded_list["specs"].v[i].t = "dict"
          /\ Len(Survivors(_expanded_list["specs"].v[i]))
               < Len(product(Axes(_expanded_list["specs"].v[i])))
    /\ Len(_concrete_specs["specs"].v) = 4

(***************************************************************************)
(* C8: the read that computes the constraint lists of the matrix with axes *)
(* ['^mvapich2'], ['%gcc@4.9.3'], ['zlib','libelf'], ['~shared'],          *)
(* ['cflags=-O3','cflags="-g -O0"'], ['^foo'] yields exactly 4 lists, and  *)
(* the list of the zlib / cflags=-O3 combination is zlib, ~shared,         *)
(* cflags=-O3, %gcc@4.9.3, ^mvapich2, ^foo: the fragments by ordering key  *)
(* (name, variant or flag, compiler, dependency), fragments of equal key   *)
(* in the order of their axes.                                             *)
(***************************************************************************)
SpecsOfStrings(ss) == [k \in 1..Len(ss) |-> SpecOf(ss[k]).v]

ComputesOrderingExample ==
    /\ last'.op = "specs_as_constraints" /\ last'.obj = "specs"
    /\ _list["specs"] = ordering_input
    /\ ~_constraints["specs"].some

\* the constraint lists of the next state that hold both zlib and cflags=-O3
ZlibO3Next ==
    {i \in 1..Len(heap'["specs"]) :
        {SpecOf(zlib).v, SpecOf(cflags_O3).v}
           \subseteq Range(ConstraintValues(heap'["specs"], _constraints'["specs"].v)[i])}

OrderingExampleIs(order) ==
    /\ last'.err = NoErr
    /\ Len(_constraints'["specs"].v) = 4
    /\ Cardinality(ZlibO3Next) = 1
    /\ \A i \in ZlibO3Next :
          ConstraintValues(heap'["specs"], _constraints'["specs"].v)[i] = SpecsOfStrings(order)

C8_OrderingExample ==
    [][ ComputesOrderingExample =>
          OrderingExampleIs(<<zlib, no_shared, cflags_O3, gcc493, dep_mvapich2, dep_foo>>)
      ]_vars

\* the constraint lists of the ordering example have just been computed
C8_Witness ==
    /\ last.op = "specs_as_constraints" /\ last.err = NoErr
    /\ _list["specs"] = ordering_input
    /\ _constraints["specs"].some /\ ~_specs["specs"].some
    /\ Len(heap["specs"]) = 4

\* C8 as the specification words it: the list of the zlib / cflags=-O3 combination
\* is zlib, cflags=-O3, ~shared, %gcc@4.9.3, ^foo, ^mvapich2
C8_OrderingExample_AsStated ==
    [][ ComputesOrderingExample =>
          OrderingExampleIs(<<zlib, cflags_O3, no_shared, gcc493, dep_foo, dep_mvapich2>>)
      ]_vars

(***************************************************************************)
(* C9: when a constraint list of the Named List does not hold exactly one  *)
(* fragment with a package name, reading the merged specs and reading the  *)
(* concrete specs both fail with InvalidSpecConstraintError, and neither   *)
(* view is produced.                                                       *)
(***************************************************************************)
C9_ExactlyOneNamedFragment ==
    \A o \in Lists :
       (/\ _constraints[o].some
        /\ \E i \in 1..Len(ExpectedFragments(_expanded_list[o].v)) :
              NamedCount(ExpectedFragments(_expanded_list[o].v)[i]) # 1) =>
          /\ ~_specs[o].some
          /\ ~_concrete_specs[o].some
          /\ specs(Self(o), Slots(o)).err.kind = "InvalidSpecConstraintError"
          /\ concrete_specs(Self(o), Slots(o), 0, "ok").err.kind = "InvalidSpecConstraintError"

(***************************************************************************)
(* C10: for a valid declared list, in every state, len() succeeds and is   *)
(* the number of plain elements plus non-excluded matrix combinations, the *)
(* number of entries of the merged specs; and indexing at a position below *)
(* that number succeeds on the merged specs.                               *)
(***************************************************************************)
ValidList(o) ==
    /\ YamlView(o).err = NoErr
    /\ \A s \in StringsIn(List(YamlView(o).v)) : ~startswith(s, "$")
    /\ BuildConstraints(YamlView(o).v).err = NoErr
    /\ \A i \in 1..Len(ExpectedFragments(YamlView(o).v)) :
          NamedCount(ExpectedFragments(YamlView(o).v)[i]) = 1

C10_SizeAndIndexing ==
    [][ \A o \in Lists :
          (last'.op \in {"__len__", "__getitem__"} /\ last'.obj = o /\ ValidList(o)) =>
             /\ _specs'[o].some
             /\ Len(_specs'[o].v) = Len(ExpectedFragments(YamlView(o).v))
             /\ last'.op = "__len__" => last'.err = NoErr
             /\ (last'.op = "__getitem__" /\ last'.arg[1] < Len(ExpectedFragments(YamlView(o).v)))
                   => last'.err = NoErr
      ]_vars

(***************************************************************************)
(* The retry loop of concrete_specs                                        *)
(***************************************************************************)
RecoverableKinds == {"InvalidDependencyError", "UnknownVariantError"}

\* a read of concrete_specs ended with every concrete spec, or with an error and no cache
DoneOrFatalNext ==
    \/ last'.err = NoErr /\ _concrete_specs'["specs"].some
    \/ last'.err # NoErr /\ ~_concrete_specs'["specs"].some

(***************************************************************************)
(* C11: for every behaviour of the concretizer a read of concrete_specs    *)
(* ends, done or with an error, and it has called the concretizer for each *)
(* constraint list at most once plus once per non-root fragment of the     *)
(* list.                                                                   *)
(***************************************************************************)
C11_RetryLoopTerminates ==
    [][ (last'.op = "concrete_specs" /\ last'.obj = "specs") =>
          /\ DoneOrFatalNext
          /\ Len(last'.calls) <= Len(heap'["specs"])
          /\ \A i \in 1..Len(last'.calls) :
                last'.calls[i] <= 1 + (Len(heap'["specs"][i]) - 1)
      ]_vars

\* the concretizer raised a recoverable error for a list with non-root fragments,
\* and the read has ended
C11_Witness ==
    /\ last.op = "concrete_specs" /\ last.fail.kind \in RecoverableKinds
    /\ last.calls = <<1>>
    /\ Len(heap["specs"][1]) >= 2
    /\ last.err # NoErr

\* the fragments of the constraint list for which the concretizer raised
FailedListNext == ExpectedFragments(_expanded_list'["specs"].v)[last'.fail.at]

\* fragment frag requests the dependency, or sets the variant, that id names
Matches(id, frag) == \E c \in {"^", "~", "+", "-"} : frag = <<c, id>>

MatchedFragments(frags, ids) ==
    {j \in 1..Len(frags) : \E id \in ids : Matches(id, frags[j])}

\* every identifier the error reports matches a fragment of the list
Attributable(frags, ids) ==
    ids # {} /\ \A id \in ids : \E j \in 1..Len(frags) : Matches(id, frags[j])

RecoverableFailureNext ==
    /\ last'.op = "concrete_specs" /\ last'.obj = "specs"
    /\ last'.fail.kind \in RecoverableKinds

\* the spec last handed to the concretizer for the list at which it raised: the root,
\* constrained in place
HandedNext ==
    LET row == heap'["specs"][last'.fail.at]
    IN row[CHOOSE j \in 1..Len(row) : row[j].name # ""]

C13_RecoverableFailure ==
    [][ RecoverableFailureNext =>
          IF Attributable(FailedListNext, last'.fail.ids)
          THEN last'.calls[last'.fail.at] >= 2
          ELSE /\ last'.err.kind = last'.fail.kind
               /\ last'.calls[last'.fail.at] = 1
      ]_vars

(***************************************************************************)
(* C14: when the concretizer raises an error that is not one of the two    *)
(* recoverable kinds, the read of concrete_specs raises that error after   *)
(* exactly one attempt on the constraint list, and the cache of the        *)
(* concrete specs stays empty.                                             *)
(***************************************************************************)
OtherFailureNext ==
    /\ last'.op = "concrete_specs" /\ last'.obj = "specs"
    /\ last'.fail.at >= 1
    /\ last'.fail.kind \notin RecoverableKinds

C14_OtherErrorsPropagate ==
    [][ OtherFailureNext =>
          /\ last'.err = Err(last'.fail.kind, <<>>)
          /\ last'.calls[last'.fail.at] = 1
          /\ Len(last'.calls) = last'.fail.at
          /\ ~_concrete_specs'["specs"].some
      ]_vars

\* the concretizer raised ConcretizationError for the first constraint list
C14_Witness ==
    /\ last.op = "concrete_specs" /\ last.fail.kind = "ConcretizationError"
    /\ last.fail.at = 1 /\ last.calls = <<1>>
    /\ last.err.kind = "ConcretizationError"
    /\ ~_concrete_specs["specs"].some

(***************************************************************************)
(* C15: when the Named List has an unresolvable reference, or one of its   *)
(* constraint lists does not hold exactly one named root fragment, a read  *)
(* of concrete_specs fails and the concretizer has not been called for any *)
(* constraint list of the Named List, wherever the malformed list stands.  *)
(***************************************************************************)
MalformedListNext ==
    /\ _expanded_list'["specs"].some
    /\ \E i \in 1..Len(ExpectedFragments(_expanded_list'["specs"].v)) :
          NamedCount(ExpectedFragments(_expanded_list'["specs"].v)[i]) # 1

C15_FailsBeforeConcretizing ==
    [][ (/\ last'.op = "concrete_specs" /\ last'.obj = "specs"
         /\ (MissingNames("specs") # {} \/ MalformedListNext)) =>
          /\ last'.err # NoErr
          /\ \A i \in 1..Len(last'.calls) : last'.calls[i] = 0
      ]_vars

(***************************************************************************)
(* C16: computing the merged specs changes no fragment: after a read that  *)
(* computes them, every constraint list holds the fragments the constraint *)
(* lists view held before the read, with the same values in the same       *)
(* order, and each merged spec is an object other than every fragment of   *)
(* its constraint list.                                                    *)
(***************************************************************************)
ComputesSpecsNext ==
    /\ last'.op = "specs" /\ last'.obj = "specs" /\ last'.err = NoErr
    /\ ~_specs["specs"].some /\ _specs'["specs"].some

C16_MergeLeavesFragments ==
    [][ ComputesSpecsNext =>
          /\ ConstraintValues(heap'["specs"], _constraints'["specs"].v)
               = ConstraintsView("specs").v
          /\ \A i \in 1..Len(_specs'["specs"].v) :
                _specs'["specs"].v[i] \notin Range(_constraints'["specs"].v[i])
      ]_vars

(***************************************************************************)
(* C17: every constraint list computed for a combination of a matrix is    *)
(* the combination in a stable sort by ordering key: the keys (name 1,     *)
(* variant or flag 2, compiler 3, hash 4, dependency 5) do not decrease    *)
(* along the list, and fragments of equal key stand in the order of their  *)
(* axes.                                                                   *)
(***************************************************************************)
OrderingKey(s) ==
    IF s[1] = "^" THEN 5
    ELSE IF s[1] = "/" THEN 4
    ELSE IF s[1] = "%" THEN 3
    ELSE IF s[1] \in {"~", "-", "+", "@"} \/ "=" \in Range(s) THEN 2
    ELSE 1

\* the place of the fragment of axis j in the stable sort of combo
StableRank(combo, j) ==
    1 + Cardinality({m \in 1..Len(combo) :
                       \/ OrderingKey(combo[m]) < OrderingKey(combo[j])
                       \/ OrderingKey(combo[m]) = OrderingKey(combo[j]) /\ m < j})

StableSort(combo) ==
    [p \in 1..Len(combo) |-> combo[CHOOSE j \in 1..Len(combo) : StableRank(combo, j) = p]]

\* one fragment of every axis, in the order of the axes
RECURSIVE Combinations(_)
Combinations(axes) ==
    IF axes = <<>> THEN {<<>>}
    ELSE {<<x>> \o r : x \in Range(Head(axes)), r \in Combinations(Tail(axes))}

ComputesConstraintsNext ==
    /\ last'.op = "specs_as_constraints" /\ last'.obj = "specs" /\ last'.err = NoErr
    /\ ~_constraints["specs"].some /\ _constraints'["specs"].some

EmittedNext == ConstraintValues(heap'["specs"], _constraints'["specs"].v)

MatricesNext ==
    {i \in 1..Len(_expanded_list'["specs"].v) : _expanded_list'["specs"].v[i].t = "dict"}

C17_ListsStablySorted ==
    [][ ComputesConstraintsNext =>
          \A i \in 1..Len(EmittedNext) :
             \/ Len(EmittedNext[i]) = 1
             \/ \E m \in MatricesNext :
                \E c \in Combinations(Axes(_expanded_list'["specs"].v[m])) :
                   EmittedNext[i] = SpecsOfStrings(StableSort(c))
      ]_vars

\* the constraint lists of a matrix whose first axis is a hash have just been computed
C17_Witness ==
    /\ last.op = "specs_as_constraints" /\ last.err = NoErr
    /\ _list["specs"] = anonymous_input
    /\ _constraints["specs"].some /\ ~_specs["specs"].some
    /\ Len(heap["specs"]) = 5
    /\ heap["specs"][2] = SpecsOfStrings(<<libelf, gcc493, hash_abc>>)

(***************************************************************************)
(* C18: the constraint lists stand in expansion order: a plain element     *)
(* gives one list of one fragment at its place, a matrix gives at its      *)
(* place one list per combination that is not excluded, in the order of    *)
(* the cartesian product with the first axis slowest and the last axis     *)
(* fastest; the number of lists is the number of plain elements plus, for  *)
(* every matrix, the product of the sizes of its axes less its excluded    *)
(* combinations.                                                           *)
(***************************************************************************)
RECURSIVE SizeProduct(_)
SizeProduct(axes) == IF axes = <<>> THEN 1 ELSE Len(Head(axes)) * SizeProduct(Tail(axes))

\* the combination number n (from 0) of the product: the digits of n, last axis fastest
CombinationAt(axes, n) ==
    [a \in 1..Len(axes) |->
       axes[a][((n \div SizeProduct(SubSeq(axes, a + 1, Len(axes)))) % Len(axes[a])) + 1]]

\* a combination is excluded when its spec satisfies one of the exclude patterns
IsExcluded(item, combo) ==
    \E x \in Range(Excludes(item)) : satisfies(SpecOf(join(StableSort(combo))).v, SpecOf(x).v)

KeptNumbers(item) ==
    {n \in 0..(SizeProduct(Axes(item)) - 1) : ~IsExcluded(item, CombinationAt(Axes(item), n))}

\* the n-th smallest (from 1) of a set of numbers
NthOf(S, n) == CHOOSE x \in S : Cardinality({y \in S : y < x}) = n - 1

EntriesOf(item) ==
    IF item.t = "dict"
    THEN [k \in 1..Cardinality(KeptNumbers(item)) |->
            {SpecOf(f).v : f \in Range(CombinationAt(Axes(item), NthOf(KeptNumbers(item), k)))}]
    ELSE << {SpecOf(item.s).v} >>

ExpansionOrder(items) == Flatten([i \in 1..Len(items) |-> EntriesOf(items[i])])

RECURSIVE EntryCount(_)
EntryCount(items) ==
    IF items = <<>> THEN 0
    ELSE (IF Head(items).t = "dict"
          THEN SizeProduct(Axes(Head(items)))
                 - Cardinality({c \in Combinations(Axes(Head(items))) : IsExcluded(Head(items), c)})
          ELSE 1) + EntryCount(Tail(items))

C18_ExpansionOrder ==
    [][ ComputesConstraintsNext =>
          /\ Len(EmittedNext) = EntryCount(_expanded_list'["specs"].v)
          /\ [i \in 1..Len(EmittedNext) |-> Range(EmittedNext[i])]
               = ExpansionOrder(_expanded_list'["specs"].v)
          /\ \A i \in 1..Len(_expanded_list'["specs"].v) :
                _expanded_list'["specs"].v[i].t = "str" =>
                   Len(EmittedNext[Len(ExpansionOrder(SubSeq(_expanded_list'["specs"].v, 1, i)))]) = 1
      ]_vars

\* the lists of a plain element, a matrix with an excluded combination and a plain
\* element have just been computed
C18_Witness ==
    /\ last.op = "specs_as_constraints" /\ last.err = NoErr
    /\ _list["specs"] = exclude_input
    /\ _constraints["specs"].some /\ ~_specs["specs"].some
    /\ Len(heap["specs"]) = 4
    /\ heap["specs"][2] = SpecsOfStrings(<<zlib, intel18>>)
    /\ heap["specs"][4] = SpecsOfStrings(<<libelf>>)

(***************************************************************************)
(* C19: what the views return does not depend on the order of their first  *)
(* reads: from a list with empty caches, reading the concrete specs before *)
(* the merged specs, or the merged specs before the constraint lists,      *)
(* and the opposite order, end with equal constraint lists, merged specs   *)
(* and concrete specs; and a read of the concrete specs leaves the         *)
(* constraint lists, their roots included, as they were.                   *)
(***************************************************************************)
\* the slots a finished read leaves for the next read
After(st) == [st EXCEPT !.err = NoErr, !.calls = <<>>]

ConcreteViewOf(st) == IF st.err # NoErr THEN Fail(st.err) ELSE Ok(st.concrete.v)

\* the three views as read, in this order, after the reads that led to st
ViewsAfter(self, st) ==
    [constraints |-> ConstraintsViewOf(specs_as_constraints(self, After(st))),
     specs |-> SpecsViewOf(specs(self, After(specs_as_constraints(self, After(st))))),
     concrete |-> ConcreteViewOf(
         concrete_specs(self,
                        After(specs(self, After(specs_as_constraints(self, After(st))))),
                        0, "ok"))]

ConcreteThenSpecs(self, st) == specs(self, After(concrete_specs(self, st, 0, "ok")))

SpecsThenConcrete(self, st) == concrete_specs(self, After(specs(self, st)), 0, "ok")

SpecsThenConstraints(self, st) == specs_as_constraints(self, After(specs(self, st)))

ConstraintsThenSpecs(self, st) == specs(self, After(specs_as_constraints(self, st)))

C19_ReadOrderIndependent ==
    AllCleared("specs") =>
       /\ ViewsAfter(Self("specs"), ConcreteThenSpecs(Self("specs"), Slots("specs")))
            = ViewsAfter(Self("specs"), SpecsThenConcrete(Self("specs"), Slots("specs")))
       /\ ViewsAfter(Self("specs"), SpecsThenConstraints(Self("specs"), Slots("specs")))
            = ViewsAfter(Self("specs"), ConstraintsThenSpecs(Self("specs"), Slots("specs")))
       /\ ConstraintsViewOf(specs_as_constraints(Self("specs"),
              After(concrete_specs(Self("specs"), Slots("specs"), 0, "ok"))))
            = ConstraintsView("specs")

(***************************************************************************)
(* C20: in every reachable state, for every list, when the cache of the    *)
(* merged specs or that of the concrete specs is populated then the cache  *)
(* of the constraint lists is populated, and when the cache of the         *)
(* constraint lists is populated then that of the expanded elements is.    *)
(***************************************************************************)
C20_CacheTiers ==
    \A o \in Lists :
       /\ (_specs[o].some \/ _concrete_specs[o].some) => _constraints[o].some
       /\ _constraints[o].some => _expanded_list[o].some

\* after a mutation, the merged specs and the concrete specs have been read again
C20_Witness ==
    /\ nmut >= 1
    /\ _specs["specs"].some /\ _concrete_specs["specs"].some
    /\ _constraints["specs"].some /\ _expanded_list["specs"].some

====
